---- MODULE Spec2Model ----
(***************************************************************************)
(* Model of caver-js' Keyring (packages/caver-wallet/src/keyring/keyring.js) *)
(* : construction, role lookup, signing, keystore encryption / decryption.  *)
(*                                                                           *)
(* JavaScript values whose run-time type the code inspects (_.isArray,       *)
(* truthiness, === undefined) are tagged records: [t |-> "array", v |-> s],  *)
(* [t |-> "object", ...], [t |-> "undefined"].  A private key is its scalar  *)
(* (an integer); hex strings are sequences of character codes.               *)
(***************************************************************************)
EXTENDS Integers, Sequences, FiniteSets, TLC

\* ------------------------------------------------------------------ bounds
\* longest per-role key list handed to the constructor
MaxInputLen == 3
\* number of distinct passwords
NumPasswords == 2
\* period of the modelled random byte source
NumRand == 2
\* object and array allocations after which no further keys value is built
MaxAllocated == 10

\* --------------------------------------------------------------- constants
RoleTransactionKey == 0
RoleAccountUpdateKey == 1
RoleFeePayerKey == 2
RoleLast == 3
\* keyringHelper.MAXIMUM_KEY_NUM (10 in the library), scaled down
MAXIMUM_KEY_NUM == 2
\* order of the scalar group (secp256k1 n in the library), scaled down
CurveOrder == 3
\* number of hex characters of an address (40 in the library), scaled down
AddressHexLen == 2
\* number of hex characters of a 32-byte hash
HashHexLen == 64

\* ---------------------------------------------------------- JS value model
Undefined == [t |-> "undefined"]
Arr(s) == [t |-> "array", v |-> s]
IsArray(x) == x.t = "array"
Truthy(x) == x.t # "undefined"
\* arr[i] of a JS array (0-based); out of range reads give undefined
Index(arr, i) == IF i >= 0 /\ i < Len(arr.v) THEN arr.v[i + 1] ELSE Undefined

Ok(v) == [ok |-> TRUE, err |-> "none", val |-> v]
Err(e) == [ok |-> FALSE, err |-> e, val |-> Undefined]

\* an argument that was not passed
UndefinedArg == -1

\* ------------------------------------------------------------- hex strings
\* character codes: 0..9 digits, 10..15 'a'..'f', 16..21 'A'..'F', 22 'g'
IsHexChar(c) == c \in 0..21
ToLowerCase(s) == [i \in 1..Len(s) |-> IF s[i] \in 16..21 THEN s[i] - 6 ELSE s[i]]

\* utils.isAddress: optional 0x prefix followed by AddressHexLen hex characters
IsAddress(a) == Len(a.body) = AddressHexLen /\ \A i \in 1..Len(a.body) : IsHexChar(a.body[i])

\* utils.addHexPrefix(a).toLowerCase()
AddHexPrefixLower(a) == [prefixed |-> TRUE, body |-> ToLowerCase(a.body)]

\* utils.isValidHashStrict: 0x followed by exactly 64 hex characters
IsValidHashStrict(h) == h.prefixed /\ h.hexlen = HashHexLen /\ h.allhex

\* -------------------------------------------------------------- PrivateKey
Scalars == 1..(CurveOrder - 1)
\* utils.isValidPrivateKey, applied by the PrivateKey constructor
IsValidPrivateKey(k) == k \in Scalars
\* PrivateKey.getDerivedAddress: a checksum-cased address, function of the scalar
DerivedAddress(k) == [prefixed |-> TRUE, body |-> <<16, k>>]
\* PrivateKey.sign(hash, chainId): the signature names its key, digest and chain
Sign(k, hash, chainId) == [signer |-> k, hash |-> hash, chainId |-> chainId]

\* ----------------------------------------------------- keyring construction
\* keyringHelper.isRoleBasedKeysFormat on an array of arrays
IsRoleBasedKeysFormat(keyInput) == Len(keyInput) <= RoleLast

\* generateKeysFormat
GenerateKeysFormat == [i \in 1..RoleLast |-> <<>>]

\* fillRoleKey: the keys of one role, or the error it throws
FillRoleKey(role, keyToAdd) ==
    IF Len(keyToAdd) > MAXIMUM_KEY_NUM THEN Err("maximum number of private keys")
    ELSE IF role >= RoleLast THEN Err("Unsupported role number")
    ELSE IF \E i \in 1..Len(keyToAdd) : ~IsValidPrivateKey(keyToAdd[i]) THEN Err("Invalid private key")
    ELSE Ok(keyToAdd)

\* formattingForKeyInKeyring on a role-based input (an array of at most 3 arrays)
FormattingForKeyInKeyring(keyInput) ==
    IF ~IsRoleBasedKeysFormat(keyInput) THEN Err("Invalid format for key variable in keyring")
    ELSE LET filled == [i \in 1..RoleLast |->
                           IF i <= Len(keyInput) THEN FillRoleKey(i - 1, keyInput[i])
                           ELSE Ok(GenerateKeysFormat[i])]
             bad == {i \in 1..RoleLast : ~filled[i].ok}
         IN  IF bad = {} THEN Ok([i \in 1..RoleLast |-> filled[i].val])
             ELSE filled[CHOOSE i \in bad : \A j \in bad : i <= j]

\* new Keyring(address, keys): the address setter, then the keys setter
NewKeyring(address, keys) ==
    IF ~IsAddress(address) THEN Err("Invalid address")
    ELSE LET k == FormattingForKeyInKeyring(keys)
         IN  IF ~k.ok THEN k
             ELSE Ok([address |-> AddHexPrefixLower(address), keys |-> k.val])

\* Keyring.createWithRoleBasedKey
CreateWithRoleBasedKey(address, roledBasedKeyArray) ==
    IF ~IsRoleBasedKeysFormat(roledBasedKeyArray) THEN Err("Invalid format of parameter")
    ELSE NewKeyring(address, roledBasedKeyArray)

\* ------------------------------------------------------------ role lookup
\* getKeyByRole without the fallback to TransactionKey: an empty role reads as its
\* own empty list
GetKeyByRoleNoFallback(kr, role) ==
    IF role = UndefinedArg THEN Err("role should be defined")
    ELSE IF role \notin 0..(RoleLast - 1) THEN Err("TypeError")
    ELSE Ok(kr.keys[role + 1])

\* Keyring.prototype.getKeyByRole
GetKeyByRole(kr, role) ==
    IF role = UndefinedArg THEN Err("role should be defined")
    ELSE IF role \notin 0..(RoleLast - 1) THEN Err("TypeError")
    ELSE LET key == kr.keys[role + 1]
         IN  IF Len(key) = 0 /\ role > RoleTransactionKey
             THEN IF Len(kr.keys[RoleTransactionKey + 1]) = 0
                  THEN Err("key with role does not exist")
                  ELSE Ok(kr.keys[RoleTransactionKey + 1])
             ELSE Ok(key)

\* ----------------------------------------------------------------- signing
\* the index parameter with its default: index = 0 when not passed
DefaultIndex(index) == IF index.t = "undefined" THEN [t |-> "number", n |-> 0] ELSE index

\* signWithKey that ignores the index once it is in range and signs with the
\* first key of the resolved list
SignWithKeyFirst(kr, transactionHash, chainId, role, indexArg) ==
    LET index == DefaultIndex(indexArg)
    IN  IF ~IsValidHashStrict(transactionHash) THEN Err("Invalid transaction hash")
        ELSE IF chainId = UndefinedArg THEN Err("chainId should be defined to sign")
        ELSE IF role = UndefinedArg THEN Err("role should be defined to sign")
        ELSE LET keys == GetKeyByRole(kr, role)
             IN  IF ~keys.ok THEN keys
                 ELSE IF index.t # "number" THEN Err("Invalid type of index")
                 ELSE IF index.n < 0 THEN Err("index cannot be negative")
                 ELSE IF index.n >= Len(keys.val) THEN Err("index must be less than the length of keys")
                 ELSE Ok(Sign(keys.val[1], transactionHash, chainId))

\* Keyring.prototype.signWithKey
SignWithKey(kr, transactionHash, chainId, role, indexArg) ==
    LET index == DefaultIndex(indexArg)
    IN  IF ~IsValidHashStrict(transactionHash) THEN Err("Invalid transaction hash")
        ELSE IF chainId = UndefinedArg THEN Err("chainId should be defined to sign")
        ELSE IF role = UndefinedArg THEN Err("role should be defined to sign")
        ELSE LET keys == GetKeyByRole(kr, role)
             IN  IF ~keys.ok THEN keys
                 ELSE IF index.t # "number" THEN Err("Invalid type of index")
                 ELSE IF index.n < 0 THEN Err("index cannot be negative")
                 ELSE IF index.n >= Len(keys.val) THEN Err("index must be less than the length of keys")
                 ELSE Ok(Sign(keys.val[index.n + 1], transactionHash, chainId))

\* signWithKeys that returns the signatures in reverse key order
SignWithKeysReversed(kr, transactionHash, chainId, role) ==
    IF ~IsValidHashStrict(transactionHash) THEN Err("Invalid transaction hash")
    ELSE IF chainId = UndefinedArg THEN Err("chainId should be defined to sign")
    ELSE IF role = UndefinedArg THEN Err("role should be defined to sign")
    ELSE LET keys == GetKeyByRole(kr, role)
         IN  IF ~keys.ok THEN keys
             ELSE Ok([i \in 1..Len(keys.val) |->
                         Sign(keys.val[Len(keys.val) + 1 - i], transactionHash, chainId)])

\* Keyring.prototype.signWithKeys
SignWithKeys(kr, transactionHash, chainId, role) ==
    IF ~IsValidHashStrict(transactionHash) THEN Err("Invalid transaction hash")
    ELSE IF chainId = UndefinedArg THEN Err("chainId should be defined to sign")
    ELSE IF role = UndefinedArg THEN Err("role should be defined to sign")
    ELSE LET keys == GetKeyByRole(kr, role)
         IN  IF ~keys.ok THEN keys
             ELSE Ok([i \in 1..Len(keys.val) |-> Sign(keys.val[i], transactionHash, chainId)])

\* Keyring.prototype.isDecoupled
IsDecoupled(kr) ==
    LET isMultiple == \E i \in 1..Len(kr.keys) : Len(kr.keys[i]) > 1
    IN  IF isMultiple THEN Ok(TRUE)
        ELSE IF Len(kr.keys[1]) = 0 THEN Err("TypeError")
        ELSE Ok(ToLowerCase(kr.address.body) # ToLowerCase(DerivedAddress(kr.keys[1][1]).body))

\* an option that was not given
Unset == -1

\* --------------------------------------------------------- wallet key export
\* utils.addHexPrefix
AddHexPrefix(a) == [a EXCEPT !.prefixed = TRUE]

\* the string `${privateKey}0x00${address}`, both parts with the 0x prefix
KlaytnWalletKey(privateKey, address) ==
    [t |-> "string", privateKey |-> privateKey, type |-> "0x00", address |-> address]

\* getKlaytnWalletKey that only looks at the TransactionKey list
GetKlaytnWalletKeyAnyRoles(kr) ==
    IF Len(kr.keys[RoleTransactionKey + 1]) > 1 THEN Err("cannot be exported in KlaytnWalletKey format")
    ELSE IF Len(kr.keys[1]) = 0 THEN Err("TypeError")
    ELSE Ok(KlaytnWalletKey([prefixed |-> TRUE, key |-> kr.keys[1][1]], AddHexPrefix(kr.address)))

\* Keyring.prototype.getKlaytnWalletKey
GetKlaytnWalletKey(kr) ==
    IF Len(kr.keys[RoleTransactionKey + 1]) > 1 THEN Err("cannot be exported in KlaytnWalletKey format")
    ELSE IF \E i \in RoleAccountUpdateKey..(RoleLast - 1) : Len(kr.keys[i + 1]) > 0
    THEN Err("cannot be exported in KlaytnWalletKey format")
    ELSE IF Len(kr.keys[1]) = 0 THEN Err("TypeError")
    ELSE Ok(KlaytnWalletKey([prefixed |-> TRUE, key |-> kr.keys[1][1]], AddHexPrefix(kr.address)))

\* -------------------------------------------------------- account descriptor
\* isEmptyKey
IsEmptyKey(keys) == \A i \in 1..Len(keys) : Len(keys[i]) = 0


\* Keyring.prototype.getPublicKey
GetPublicKey(kr) == [i \in 1..RoleLast |-> [j \in 1..Len(kr.keys[i]) |-> [publicKey |-> kr.keys[i][j]]]]

\* options[0] for a non-empty array, else options itself
FirstOption(options) == IF IsArray(options) /\ Len(options.v) > 0 THEN options.v[1] ELSE options

\* options.threshold !== undefined && options.weights !== undefined, on a value
\* that has properties (an array has neither property)
DefinesThresholdAndWeights(options) ==
    options.t = "object" /\ options.threshold # Unset /\ options.weights # Unset

\* what Account.createWithAccountKey... returns
AccountOf(type, address, publicKeys, options) ==
    [type |-> type, address |-> address, publicKeys |-> publicKeys, options |-> options]

\* toAccount that treats every non-empty keyring without options as a single key
ToAccountSimple(kr, options, accepted) ==
    IF IsEmptyKey(kr.keys) THEN Err("Empty key in keyring")
    ELSE IF options # Undefined THEN Err("options cannot be defined with single key")
    ELSE Ok(AccountOf("AccountKeyPublic", kr.address, GetPublicKey(kr)[1], Undefined))

\* Keyring.prototype.toAccount; `accepted` is whether the external collaborators
\* (fillWeightedMultiSigOptions..., Account.createWith...) accept what they are handed
ToAccount(kr, options, accepted) ==
    LET isRoleBased == \E i \in (RoleTransactionKey + 1)..(RoleLast - 1) : Len(kr.keys[i + 1]) > 0
        single == ~isRoleBased /\ Len(kr.keys[RoleTransactionKey + 1]) = 1 /\ options # Undefined
        first == IF single THEN FirstOption(options) ELSE options
        isWeightedMultiSig ==
            /\ ~isRoleBased
            /\ \/ single /\ DefinesThresholdAndWeights(first)
               \/ Len(kr.keys[RoleTransactionKey + 1]) > 1
    IN  IF IsEmptyKey(kr.keys) THEN Err("Empty key in keyring")
        ELSE IF single /\ first.t = "null" THEN Err("TypeError")
        ELSE IF isRoleBased /\ options # Undefined /\ ~IsArray(options)
        THEN Err("options should be in an array format")
        ELSE IF isRoleBased
        THEN IF accepted
             THEN Ok(AccountOf("AccountKeyRoleBased", kr.address, GetPublicKey(kr), options))
             ELSE Err("rejected by the account model")
        ELSE IF isWeightedMultiSig
        THEN IF accepted
             THEN Ok(AccountOf("AccountKeyWeightedMultiSig", kr.address, GetPublicKey(kr)[1], first))
             ELSE Err("rejected by the account model")
        ELSE IF first # Undefined THEN Err("options cannot be defined with single key")
        ELSE IF accepted
        THEN Ok(AccountOf("AccountKeyPublic", kr.address, GetPublicKey(kr)[1][1], Undefined))
        ELSE Err("rejected by the account model")

\* ------------------------------------------------------ crypto primitives
\* cryp.randomBytes: the n-th value of the random source
RandomBytes(n) == n % NumRand


\* scrypt(...) / cryp.pbkdf2Sync(...): dklen bytes determined by the scheme, its
\* cost parameters, the password and the salt
DeriveKey(kdf, password, kdfparams) ==
    [seed |-> <<kdf, password, kdfparams.salt>>, len |-> kdfparams.dklen]

\* Buffer.slice(from, to) of a derived key
Slice(dk, from, to) ==
    IF from >= dk.len THEN [seed |-> <<"", 0, 0>>, from |-> 0, to |-> 0]
    ELSE [seed |-> dk.seed, from |-> from, to |-> IF to < dk.len THEN to ELSE dk.len]

\* the aes-128-ctr key stream of a cipher key and an iv
KeyStream(key, iv) ==
    (key.seed[2] + key.seed[3] + iv + (IF key.seed[1] = "pbkdf2" THEN 1 ELSE 0)) % CurveOrder

\* utils.sha3(Buffer.concat([macKey, ciphertext]))
Sha3Mac(macKey, ciphertext) == [sha3 |-> <<macKey, ciphertext>>]

\* ---------------------------------------------------------------- encryptKey
\* one iteration of the loop of encryptKey: the crypto object of one key
EncryptOne(key, password, options, r) ==
    LET salt == IF options.salt # Unset THEN options.salt ELSE RandomBytes(r)
        iv == IF options.iv # Unset THEN options.iv
              ELSE RandomBytes(r + (IF options.salt = Unset THEN 1 ELSE 0))
        kdf == IF options.kdf # "" THEN options.kdf ELSE "scrypt"
        dklen == IF options.dklen # 0 THEN options.dklen ELSE 32
        kdfparams == IF kdf = "pbkdf2"
                     THEN [dklen |-> dklen, salt |-> salt, c |-> 262144, prf |-> "hmac-sha256"]
                     ELSE [dklen |-> dklen, salt |-> salt, n |-> 4096, r |-> 8, p |-> 1]
        derivedKey == DeriveKey(kdf, password, kdfparams)
        \* cryp.createCipheriv(...).update(key) ++ final()
        ciphertext == (key + KeyStream(Slice(derivedKey, 0, 16), iv)) % CurveOrder
        mac == Sha3Mac(Slice(derivedKey, 16, 32), ciphertext)
    IN  IF kdf \notin {"pbkdf2", "scrypt"} THEN Err("Unsupported kdf")
        ELSE Ok([t |-> "object",
                 ciphertext |-> ciphertext,
                 cipherparams |-> [iv |-> iv],
                 cipher |-> "aes-128-ctr",
                 kdf |-> kdf,
                 kdfparams |-> kdfparams,
                 mac |-> mac])

\* encryptKey: the array of crypto objects and the position of the random source
\* after it, or the error of the first key that fails. It loops over no keys for a
\* falsy argument, over the array itself, or over the single PrivateKey wrapped in
\* an array; d is the number of random draws of one iteration
EncryptKey(privateKey, password, options, r) ==
    LET privateKeyArray == IF ~Truthy(privateKey) THEN <<>>
                           ELSE IF IsArray(privateKey) THEN privateKey.v
                           ELSE <<privateKey.privateKey>>
        d == (IF options.salt = Unset THEN 1 ELSE 0) + (IF options.iv = Unset THEN 1 ELSE 0)
        one == [i \in 1..Len(privateKeyArray) |->
                   EncryptOne(privateKeyArray[i], password, options, r + (i - 1) * d)]
    IN  IF Len(privateKeyArray) > 0 /\ ~one[1].ok
        THEN [ok |-> FALSE, err |-> one[1].err, val |-> <<>>, rng |-> (r + d) % NumRand]
        ELSE [ok |-> TRUE, err |-> "none",
              val |-> [i \in 1..Len(privateKeyArray) |-> one[i].val],
              rng |-> (r + Len(privateKeyArray) * d) % NumRand]

\* formatEncrypted
FormatEncrypted(version, address, keyringOrCrypto, options, r) ==
    LET id == IF options.uuid # Unset THEN options.uuid ELSE RandomBytes(r)
        rng == IF options.uuid # Unset THEN r ELSE (r + 1) % NumRand
        keystore == [version |-> version,
                     id |-> id,
                     address |-> [prefixed |-> address.prefixed, body |-> ToLowerCase(address.body)],
                     crypto |-> IF version = 3 THEN keyringOrCrypto ELSE Undefined,
                     keyring |-> IF version = 4 THEN keyringOrCrypto ELSE Undefined]
    IN  IF version \notin {3, 4}
        THEN [ok |-> FALSE, err |-> "Unsupported version of keystore", val |-> Undefined, rng |-> rng]
        ELSE [ok |-> TRUE, err |-> "none", val |-> keystore, rng |-> rng]

\* what a throwing encryptKey leaves behind
Thrown(e) == [ok |-> FALSE, err |-> e.err, val |-> Undefined, rng |-> e.rng]

\* encrypt that always writes the flat form: the TransactionKey crypto objects only
EncryptFlat(kr, password, options, r) ==
    LET e0 == EncryptKey(Arr(kr.keys[1]), password, options, r)
        e1 == EncryptKey(Arr(kr.keys[2]), password, options, e0.rng)
        e2 == EncryptKey(Arr(kr.keys[3]), password, options, e1.rng)
    IN  IF ~e0.ok THEN Thrown(e0)
        ELSE IF ~e1.ok THEN Thrown(e1)
        ELSE IF ~e2.ok THEN Thrown(e2)
        ELSE FormatEncrypted(4, kr.address, Arr(e0.val), options, e2.rng)

\* Keyring.prototype.encrypt
Encrypt(kr, password, options, r) ==
    LET e0 == EncryptKey(Arr(kr.keys[1]), password, options, r)
        e1 == EncryptKey(Arr(kr.keys[2]), password, options, e0.rng)
        e2 == EncryptKey(Arr(kr.keys[3]), password, options, e1.rng)
        isRoleBased == \E i \in (RoleTransactionKey + 1)..(RoleLast - 1) : Len(kr.keys[i + 1]) > 0
        keyring == IF isRoleBased THEN Arr(<<Arr(e0.val), Arr(e1.val), Arr(e2.val)>>)
                   ELSE Arr(e0.val)
    IN  IF ~e0.ok THEN Thrown(e0)
        ELSE IF ~e1.ok THEN Thrown(e1)
        ELSE IF ~e2.ok THEN Thrown(e2)
        ELSE FormatEncrypted(4, kr.address, keyring, options, e2.rng)

\* Keyring.prototype.encryptV3; this._keys[0][0] is a PrivateKey instance, or
\* undefined
EncryptV3(kr, password, options, r) ==
    IF Len(kr.keys[RoleTransactionKey + 1]) > 1
    THEN [ok |-> FALSE, err |-> "cannot be encrypted keystore v3", val |-> Undefined, rng |-> r]
    ELSE IF \E i \in RoleAccountUpdateKey..(RoleLast - 1) : Len(kr.keys[i + 1]) > 0
    THEN [ok |-> FALSE, err |-> "cannot be encrypted keystore v3", val |-> Undefined, rng |-> r]
    ELSE LET crypto == EncryptKey(IF Len(kr.keys[1]) > 0
                                     THEN [t |-> "object", privateKey |-> kr.keys[1][1]]
                                     ELSE Undefined,
                                     password, options, r)
         IN  IF ~crypto.ok THEN Thrown(crypto)
             ELSE FormatEncrypted(3, kr.address, Arr(crypto.val), options, crypto.rng)

\* ---------------------------------------------------------------- decryptKey
\* the body of the loop of decryptKey: the key string of one crypto object, or
\* the error it throws
DecryptOne(encrypted, password) ==
    LET derivedKey == DeriveKey(encrypted.kdf, password, encrypted.kdfparams)
        mac == Sha3Mac(Slice(derivedKey, 16, 32), encrypted.ciphertext)
    IN  IF encrypted.kdf = "pbkdf2" /\ encrypted.kdfparams.prf # "hmac-sha256"
        THEN Err("Unsupported parameters to PBKDF2")
        ELSE IF encrypted.kdf \notin {"scrypt", "pbkdf2"}
        THEN Err("Unsupported key derivation scheme")
        ELSE IF mac # encrypted.mac
        THEN Err("Key derivation failed - possibly wrong password")
        \* cryp.createDecipheriv(...).update(ciphertext) ++ final()
        ELSE Ok((encrypted.ciphertext + CurveOrder
                     - KeyStream(Slice(derivedKey, 0, 16), encrypted.cipherparams.iv)) % CurveOrder)

\* the outcome of the loop of decryptKey over the crypto objects' outcomes `one`:
\* the decrypted key strings, or the error of the first object that throws;
\* deciphered counts the crypto objects that reached the decipher step
DecryptLoop(one) ==
    LET bad == {i \in DOMAIN one : ~one[i].ok}
        first == CHOOSE i \in bad : \A j \in bad : i <= j
    IN  IF bad = {}
        THEN [ok |-> TRUE, err |-> "none", val |-> Arr([i \in DOMAIN one |-> one[i].val]),
              deciphered |-> Len(one)]
        ELSE [ok |-> FALSE, err |-> one[first].err, val |-> Undefined, deciphered |-> first - 1]

\* decryptKey: undefined for a missing or empty array, else the loop's outcome
DecryptKey(encryptedArray, password) ==
    IF ~Truthy(encryptedArray) \/ Len(encryptedArray.v) = 0
    THEN [ok |-> TRUE, err |-> "none", val |-> Undefined, deciphered |-> 0]
    ELSE DecryptLoop([i \in 1..Len(encryptedArray.v) |-> DecryptOne(encryptedArray.v[i], password)])

\* transactionKey ? keys.push(transactionKey) : keys.push([])
RoleKeysOrEmpty(decrypted) == IF Truthy(decrypted.val) THEN decrypted.val.v ELSE <<>>

\* the role-based branch of Keyring.decrypt, given what decryptKey makes of the
\* three role slots: the slots are decrypted in turn and the first error is thrown
RoleBasedKeys(transactionKey, updateKey, feePayerKey) ==
    IF ~transactionKey.ok
    THEN [ok |-> FALSE, err |-> transactionKey.err, val |-> <<>>,
          deciphered |-> transactionKey.deciphered]
    ELSE IF ~updateKey.ok
    THEN [ok |-> FALSE, err |-> updateKey.err, val |-> <<>>,
          deciphered |-> transactionKey.deciphered + updateKey.deciphered]
    ELSE [ok |-> feePayerKey.ok, err |-> feePayerKey.err,
          val |-> IF feePayerKey.ok
                  THEN <<RoleKeysOrEmpty(transactionKey), RoleKeysOrEmpty(updateKey),
                         RoleKeysOrEmpty(feePayerKey)>>
                  ELSE <<>>,
          deciphered |-> transactionKey.deciphered + updateKey.deciphered
                             + feePayerKey.deciphered]

\* decrypted = _.isArray(decrypted) ? decrypted : [decrypted]
WrapDecrypted(decrypted) == IF IsArray(decrypted) THEN decrypted.v ELSE <<UndefinedArg>>

\* a flat branch that hands each decrypted key to a role of its own
FlatKeysSpread(d) ==
    [ok |-> d.ok, err |-> d.err,
     val |-> IF d.ok THEN [i \in 1..Len(WrapDecrypted(d.val)) |-> <<WrapDecrypted(d.val)[i]>>]
             ELSE <<>>,
     deciphered |-> d.deciphered]

\* the flat branch of Keyring.decrypt, given what decryptKey makes of
\* json.keyring: keys.push(decrypted), then one empty array for each index from
\* the number of decrypted keys up to ROLE_LAST
FlatKeys(d) ==
    [ok |-> d.ok, err |-> d.err,
     val |-> IF d.ok
             THEN <<WrapDecrypted(d.val)>>
                      \o [i \in 1..(IF RoleLast - Len(WrapDecrypted(d.val)) > 0
                                    THEN RoleLast - Len(WrapDecrypted(d.val)) ELSE 0) |-> <<>>]
             ELSE <<>>,
     deciphered |-> d.deciphered]

\* `keys` as Keyring.decrypt builds it from json.keyring
DecryptedKeys(json, password) ==
    IF IsArray(Index(json.keyring, 0))
    THEN RoleBasedKeys(DecryptKey(Index(json.keyring, RoleTransactionKey), password),
                       DecryptKey(Index(json.keyring, RoleAccountUpdateKey), password),
                       DecryptKey(Index(json.keyring, RoleFeePayerKey), password))
    ELSE FlatKeys(DecryptKey(json.keyring, password))

\* what Keyring.decrypt throws: the error, the record `json` as it is by then and
\* the number of decipher steps made
DecryptFailed(e, json, n) ==
    [ok |-> FALSE, err |-> e, val |-> Undefined, json |-> json, deciphered |-> n]

\* return Keyring.createWithRoleBasedKey(json.address, keys)
DecryptReturn(json, keys, created) ==
    IF ~created.ok THEN DecryptFailed(created.err, json, keys.deciphered)
    ELSE [ok |-> TRUE, err |-> "none", val |-> created.val, json |-> json,
          deciphered |-> keys.deciphered]

\* Keyring.decrypt from `const keys = []` on
DecryptWith(json, keys) ==
    IF ~keys.ok THEN DecryptFailed(keys.err, json, keys.deciphered)
    ELSE DecryptReturn(json, keys, CreateWithRoleBasedKey(json.address, keys.val))


\* Keyring.decrypt once the format checks have passed
DecryptJson(json, password) == DecryptWith(json, DecryptedKeys(json, password))

\* Keyring.decrypt on a keystore object: the keyring it returns or the error it
\* throws, with the record `json` as the call leaves it
Decrypt(keystore, password) ==
    IF keystore.version = 3 /\ ~Truthy(keystore.crypto)
    THEN DecryptFailed("Invalid keystore V3 format", keystore, 0)
    ELSE IF keystore.version = 4 /\ ~Truthy(keystore.keyring)
    THEN DecryptFailed("Invalid keystore V4 format", keystore, 0)
    ELSE IF Truthy(keystore.crypto) /\ Truthy(keystore.keyring)
    THEN DecryptFailed("crypto and keyring cannot be defined together", keystore, 0)
    ELSE IF Truthy(keystore.crypto) THEN DecryptJson([keystore EXCEPT !.keyring = Arr(<<keystore.crypto>>), !.crypto = Undefined],
                     password)
    ELSE DecryptJson(keystore, password)

\* ------------------------------------------------- key material as JS values
\* a string that spells the private key k (k = 0: no well-formed private key)
KeyString(k) == [t |-> "string", key |-> k, wallet |-> FALSE]
\* a string in KlaytnWalletKey format: private key ++ "0x00" ++ address
WalletKeyString(k, address) == [t |-> "string", key |-> k, wallet |-> TRUE, address |-> address]
\* a PrivateKey instance
PrivateKeyObject(k) == [t |-> "PrivateKey", key |-> k]
Null == [t |-> "null"]

\* _.isString
IsString(x) == x.t = "string"
\* utils.isKlaytnWalletKey
IsKlaytnWalletKey(x) == IsString(x) /\ x.wallet
\* keyringHelper.isMultipleKeysFormat: an array of strings
IsMultipleKeysFormat(keys) == IsArray(keys) /\ \A i \in 1..Len(keys.v) : IsString(keys.v[i])
\* keyringHelper.isRoleBasedKeysFormat: an array of at most RoleLast arrays
IsRoleBasedKeys(key) ==
    /\ IsArray(key)
    /\ IsRoleBasedKeysFormat(key.v)
    /\ \A i \in 1..Len(key.v) : IsArray(key.v[i])

\* keyString instanceof PrivateKey ? keyString : new PrivateKey(keyString): the
\* scalar of the key, 0 when the constructor rejects the string
KeyScalar(el) ==
    IF el.t = "PrivateKey" THEN el.key
    ELSE IF el.t = "string" /\ ~el.wallet THEN el.key
    ELSE 0

\* formattingForKeyInKeyring on any key material: a single key and a flat array
\* are rewritten into role lists first
FormattingForKey(keyInput) ==
    IF keyInput.t = "null" THEN Ok(Null)
    ELSE IF /\ keyInput.t \notin {"PrivateKey", "string"}
            /\ ~IsMultipleKeysFormat(keyInput)
            /\ ~IsRoleBasedKeys(keyInput)
    THEN Err("Invalid format for key variable in keyring")
    ELSE FormattingForKeyInKeyring(
             IF keyInput.t \in {"PrivateKey", "string"}
             THEN <<<<KeyScalar(keyInput)>>, <<>>, <<>>>>
             ELSE IF IsMultipleKeysFormat(keyInput)
             THEN <<[i \in 1..Len(keyInput.v) |-> KeyScalar(keyInput.v[i])], <<>>, <<>>>>
             ELSE [i \in 1..Len(keyInput.v) |->
                      [j \in 1..Len(keyInput.v[i].v) |-> KeyScalar(keyInput.v[i].v[j])]])

\* ------------------------------------------------------------ Keyring objects
\* the arrays generateKeysFormat creates for one keys value: the outer array and
\* one array per role, numbered in allocation order after `allocated`
AllocateKeys(keys, allocated) ==
    IF keys = Null THEN Null
    ELSE [t |-> "array", id |-> allocated + 1,
          v |-> [i \in 1..Len(keys) |-> [t |-> "array", id |-> allocated + 1 + i, v |-> keys[i]]]]

\* no Keyring object: a variable before construction, and what a throwing factory
\* hands back
NoneObject == [id |-> 0, address |-> [prefixed |-> FALSE, body |-> <<>>], keys |-> Undefined]

\* outcome of a constructor or setter: whether it threw, and the object after it
Done(obj, n) == [ok |-> TRUE, err |-> "none", val |-> obj, allocated |-> n]
Failed(e, obj, n) == [ok |-> FALSE, err |-> e, val |-> obj, allocated |-> n]

\* set address(addressInput)
SetAddress(obj, addressInput, allocated) ==
    IF ~IsAddress(addressInput) THEN Failed("Invalid address", obj, allocated)
    ELSE Done([obj EXCEPT !.address = AddHexPrefixLower(addressInput)], allocated)

\* a keys setter that installs the empty keys format first and fills it in place
SetKeysInPlace(obj, keyInput, allocated) ==
    LET k == FormattingForKey(keyInput)
    IN  IF ~k.ok
        THEN Failed(k.err, [obj EXCEPT !.keys = AllocateKeys(GenerateKeysFormat, allocated)],
                    allocated + 1 + RoleLast)
        ELSE Done([obj EXCEPT !.keys = AllocateKeys(k.val, allocated)],
                  allocated + (IF k.val = Null THEN 0 ELSE 1 + RoleLast))

\* set keys(keyInput)
SetKeys(obj, keyInput, allocated) ==
    LET k == FormattingForKey(keyInput)
    IN  IF ~k.ok THEN Failed(k.err, obj, allocated)
        ELSE Done([obj EXCEPT !.keys = AllocateKeys(k.val, allocated)],
                  allocated + (IF k.val = Null THEN 0 ELSE 1 + RoleLast))

\* new Keyring(address, keys): a new object, numbered like the arrays, on which
\* the address setter runs, then the keys setter
KeyringObject(address, keys, allocated) ==
    LET a == SetAddress([NoneObject EXCEPT !.id = allocated + 1], address, allocated + 1)
    IN  IF ~a.ok THEN a ELSE SetKeys(a.val, keys, allocated + 1)

\* a copy that hands out the object it was called on
CopyShared(obj, allocated) == Done(obj, allocated)

\* Keyring.prototype.copy
Copy(obj, allocated) ==
    KeyringObject(obj.address,
                  IF obj.keys = Null THEN Null
                  ELSE Arr([i \in 1..Len(obj.keys.v) |->
                               Arr([j \in 1..Len(obj.keys.v[i].v) |->
                                       PrivateKeyObject(obj.keys.v[i].v[j])])]),
                  allocated)

\* ------------------------------------------------------------- factories
\* Keyring.createWithSingleKey
CreateWithSingleKey(address, key, allocated) ==
    IF ~IsString(key) THEN Failed("Invalid format of parameter", NoneObject, allocated)
    ELSE IF IsKlaytnWalletKey(key)
    THEN Failed("Use 'fromKlaytnWalletKey' to create Keyring from KlaytnWalletKey", NoneObject, allocated)
    ELSE KeyringObject(address, key, allocated)

\* Keyring.createWithMultipleKey
CreateWithMultipleKey(address, keyArray, allocated) ==
    IF ~IsMultipleKeysFormat(keyArray) THEN Failed("Invalid format of parameter", NoneObject, allocated)
    ELSE KeyringObject(address, keyArray, allocated)

\* Keyring.createWithRoleBasedKey on JS values
CreateWithRoleBasedKeys(address, roledBasedKeyArray, allocated) ==
    IF ~IsRoleBasedKeys(roledBasedKeyArray) THEN Failed("Invalid format of parameter", NoneObject, allocated)
    ELSE KeyringObject(address, roledBasedKeyArray, allocated)

\* Keyring.createFromKlaytnWalletKey; utils.parsePrivateKey splits the string into
\* its private key and its address
CreateFromKlaytnWalletKey(klaytnWalletKey, allocated) ==
    IF ~IsString(klaytnWalletKey) THEN Failed("Invalid format of parameter", NoneObject, allocated)
    ELSE IF ~IsKlaytnWalletKey(klaytnWalletKey) THEN Failed("Invalid KlaytnWalletKey", NoneObject, allocated)
    ELSE CreateWithSingleKey(klaytnWalletKey.address, KeyString(klaytnWalletKey.key), allocated)

\* Keyring.createFromPrivateKey
CreateFromPrivateKey(privateKey, allocated) ==
    IF ~IsString(privateKey) THEN Failed("Invalid format of parameter", NoneObject, allocated)
    ELSE IF IsKlaytnWalletKey(privateKey) THEN CreateFromKlaytnWalletKey(privateKey, allocated)
    ELSE CreateWithSingleKey(DerivedAddress(privateKey.key), privateKey, allocated)

\* Keyring.create
KeyringCreate(address, key, allocated) ==
    IF IsString(key) THEN CreateWithSingleKey(address, key, allocated)
    ELSE IF IsMultipleKeysFormat(key) THEN CreateWithMultipleKey(address, key, allocated)
    ELSE IF IsRoleBasedKeys(key) THEN CreateWithRoleBasedKeys(address, key, allocated)
    ELSE Failed("Unsupported key type", NoneObject, allocated)

\* ------------------------------------------------------------ static encrypt
\* a Keyring object as the record the keystore codec works on
Plain(obj) == [address |-> obj.address, keys |-> [i \in 1..Len(obj.keys.v) |-> obj.keys.v[i].v]]

\* the keyring the static Keyring.encrypt builds from `key`
KeyringToEncrypt(key, options) ==
    IF IsArray(key)
    THEN IF options.address = Undefined THEN Failed("The address must be defined", NoneObject, 0)
         ELSE IF IsRoleBasedKeys(key) THEN CreateWithRoleBasedKeys(options.address, key, 0)
         ELSE IF IsMultipleKeysFormat(key) THEN CreateWithMultipleKey(options.address, key, 0)
         ELSE Failed("Invalid key format", NoneObject, 0)
    ELSE IF key.t = "Keyring" THEN Done(key.object, 0)
    ELSE IF IsString(key)
    THEN IF ~Truthy(options.address) THEN CreateFromPrivateKey(key, 0)
         ELSE IF ~IsKlaytnWalletKey(key) THEN CreateWithSingleKey(options.address, key, 0)
         ELSE IF ~CreateFromKlaytnWalletKey(key, 0).ok THEN CreateFromKlaytnWalletKey(key, 0)
         ELSE IF AddHexPrefixLower(CreateFromKlaytnWalletKey(key, 0).val.address).body
                     # ToLowerCase(options.address.body)
                 \/ ~options.address.prefixed
         THEN Failed("The address defined in options does not match the address of KlaytnWalletKey",
                     NoneObject, 0)
         ELSE CreateWithSingleKey(options.address, key, 0)
    ELSE Failed("Invalid key format", NoneObject, 0)

\* the keyring the static Keyring.encryptV3 builds from `key`
KeyringToEncryptV3(key, options) ==
    IF ~IsString(key) /\ key.t # "Keyring" THEN Failed("Invalid parameter", NoneObject, 0)
    ELSE IF key.t = "Keyring" THEN Done(key.object, 0)
    ELSE IF Truthy(options.address) THEN CreateWithSingleKey(options.address, key, 0)
    ELSE CreateFromPrivateKey(key, 0)

\* static Keyring.encrypt
StaticEncrypt(key, password, options, r) ==
    IF ~KeyringToEncrypt(key, options).ok
    THEN Thrown([err |-> KeyringToEncrypt(key, options).err, rng |-> r])
    ELSE Encrypt(Plain(KeyringToEncrypt(key, options).val), password, options, r)

\* static Keyring.encryptV3
StaticEncryptV3(key, password, options, r) ==
    IF ~KeyringToEncryptV3(key, options).ok
    THEN Thrown([err |-> KeyringToEncryptV3(key, options).err, rng |-> r])
    ELSE EncryptV3(Plain(KeyringToEncryptV3(key, options).val), password, options, r)

\* ------------------------------------------------------------ state machine
\* keyring   the Keyring instance under test (NoKeyring before construction)
\* keystore  the keystore object the caller holds (NoKeystore before encryption)
\* sealed    how that keystore was made: the call, its password, the record returned
\* last      the last call: its name, arguments and outcome
\* rng       position of the random byte source
\* objects   the Keyring objects of the construction / setter / copy runs
\* tx        the FeeDelegatedChainDataAnchoring transaction object
VARIABLES keyring, keystore, sealed, last, rng, objects, tx
vars == <<keyring, keystore, sealed, last, rng, objects, tx>>

NoKeyring == [address |-> NoneObject.address, keys |-> <<>>]
NoKeystore == [version |-> 0, id |-> 0, address |-> NoneObject.address, crypto |-> Undefined,
               keyring |-> Undefined]

\* ------------------------------------------------------- hex strings and RLP
\* the string "0x" ++ body
Hx(body) == [prefixed |-> TRUE, body |-> body]
\* character codes of the hex characters, for string comparison
Ascii(c) == IF c <= 9 THEN 48 + c ELSE IF c <= 15 THEN 87 + c ELSE IF c <= 21 THEN 49 + c ELSE 103
\* a < b on strings
RECURSIVE StrLess(_, _)
StrLess(a, b) ==
    IF b = <<>> THEN FALSE
    ELSE IF a = <<>> THEN TRUE
    ELSE IF Ascii(a[1]) # Ascii(b[1]) THEN Ascii(a[1]) < Ascii(b[1])
    ELSE StrLess(Tail(a), Tail(b))
\* parseInt(str, 16)
RECURSIVE ParseInt(_)
ParseInt(str) ==
    IF str = <<>> THEN 0
    ELSE 16 * ParseInt(SubSeq(str, 1, Len(str) - 1))
             + (IF str[Len(str)] <= 15 THEN str[Len(str)] ELSE str[Len(str)] - 6)
\* num.toString(16)
RECURSIVE HexDigits(_)
HexDigits(num) == IF num < 16 THEN <<num>> ELSE HexDigits(num \div 16) \o <<num % 16>>
\* str.slice(from, to), positions counted from 0 after the "0x"
StrSlice(str, from, to) == SubSeq(str, from + 1, IF to < Len(str) THEN to ELSE Len(str))
\* strs.join("")
RECURSIVE Join(_)
Join(strs) == IF strs = <<>> THEN <<>> ELSE Head(strs) \o Join(Tail(strs))
\* typeof tree === "string"
IsTreeString(tree) == "body" \in DOMAIN tree

\* eth-lib RLP.encode
Uint(num) == IF Len(HexDigits(num)) % 2 = 0 THEN HexDigits(num) ELSE <<0>> \o HexDigits(num)
RlpLength(len, add) ==
    IF len < 56 THEN Uint(add + len)
    ELSE Uint(add + Len(Uint(len)) \div 2 + 55) \o Uint(len)
\* a string: hex is tree.slice(2), whatever the first two characters are
RECURSIVE DataTree(_)
DataTree(tree) ==
    IF IsTreeString(tree)
    THEN LET hex == IF tree.prefixed THEN tree.body ELSE StrSlice(tree.body, 2, Len(tree.body))
         IN  (IF Len(hex) # 2 \/ ~StrLess(hex, <<8, 0>>) THEN RlpLength(Len(hex) \div 2, 128)
              ELSE <<>>) \o hex
    ELSE LET hex == Join([i \in 1..Len(tree.v) |-> DataTree(tree.v[i])])
         IN  RlpLength(Len(hex) \div 2, 192) \o hex
RlpEncode(tree) == Hx(DataTree(tree))

\* eth-lib RLP.decode; i counts from 0 after the "0x"
Parsed(val, i) == [ok |-> TRUE, val |-> val, i |-> i]
ShortLength(hex, i) == ParseInt(StrSlice(hex, i, i + 2)) % 64
ParseLength(hex, i) ==
    IF ShortLength(hex, i) < 56 THEN [len |-> ShortLength(hex, i), i |-> i + 2]
    ELSE [len |-> ParseInt(StrSlice(hex, i + 2, i + 2 + (ShortLength(hex, i) - 55) * 2)),
          i |-> i + 2 + (ShortLength(hex, i) - 55) * 2]
RECURSIVE ParseTree(_, _)
RECURSIVE ParseItems(_, _, _)
ParseItems(hex, i, lim) ==
    IF i >= lim THEN Parsed(<<>>, i)
    ELSE LET first == ParseTree(hex, i)
         IN  IF ~first.ok THEN first
             ELSE LET rest == ParseItems(hex, first.i, lim)
                  IN  IF ~rest.ok THEN rest ELSE Parsed(<<first.val>> \o rest.val, rest.i)
ParseTree(hex, i) ==
    IF i >= Len(hex) THEN [ok |-> FALSE, val |-> Undefined, i |-> i]
    ELSE IF StrLess(StrSlice(hex, i, i + 2), <<8, 0>>) THEN Parsed(Hx(StrSlice(hex, i, i + 2)), i + 2)
    ELSE IF StrLess(StrSlice(hex, i, i + 2), <<12, 0>>)
    THEN Parsed(Hx(StrSlice(hex, ParseLength(hex, i).i,
                            ParseLength(hex, i).i + ParseLength(hex, i).len * 2)),
                ParseLength(hex, i).i + ParseLength(hex, i).len * 2)
    ELSE LET list == ParseItems(hex, ParseLength(hex, i).i,
                                ParseLength(hex, i).len * 2 + ParseLength(hex, i).i)
         IN  IF ~list.ok THEN list ELSE Parsed(Arr(list.val), list.i)
RlpDecode(hex) == IF ParseTree(hex.body, 0).ok THEN ParseTree(hex.body, 0).val ELSE Arr(<<>>)

\* ---------------------------------------------------------- transaction
\* TX_TYPE_TAG.TxTypeFeeDelegatedChainDataAnchoring: "0x49"
TxTypeTag == <<4, 9>>
\* no transaction constructed yet
NoTx == [nonce |-> Undefined, gasPrice |-> Undefined, gas |-> Undefined, from |-> Undefined,
         input |-> Undefined, signatures |-> Undefined, feePayer |-> Undefined,
         feePayerSignatures |-> Undefined]

\* !x for a string or undefined
Falsy(x) == x = Undefined \/ x = [prefixed |-> FALSE, body |-> <<>>]
\* str.toLowerCase()
LowerCase(str) == IF str = Undefined THEN Undefined ELSE [str EXCEPT !.body = ToLowerCase(str.body)]
\* the digits of a hex number without leading zeros
RECURSIVE StripZeros(_)
StripZeros(body) == IF body # <<>> /\ body[1] = 0 THEN StripZeros(Tail(body)) ELSE body
\* utils.numberToHex on a hex number string
NumberToHex(n) ==
    IF n = Undefined THEN Undefined
    ELSE Hx(IF StripZeros(n.body) = <<>> THEN <<0>> ELSE StripZeros(n.body))
\* utils.trimLeadingZero
TrimLeadingZero(hex) == IF hex = Undefined THEN Undefined ELSE Hx(StripZeros(hex.body))
\* Bytes.fromNat
FromNat(bn) ==
    IF bn = Hx(<<0>>) THEN Hx(<<>>)
    ELSE IF Len(bn.body) % 2 = 0 THEN bn
    ELSE Hx(<<0>> \o bn.body)

\* set from(address)
SetFrom(t, address) ==
    IF address = Undefined \/ ~IsAddress(address) THEN Failed("Invalid address of from", t, 0)
    ELSE Done([t EXCEPT !.from = LowerCase(address)], 0)

\* set input(input); utils.isHex: every character is a hex character
SetInput(t, input) ==
    IF Falsy(input) \/ (\E i \in 1..Len(input.body) : ~IsHexChar(input.body[i])) THEN Failed("Invalid input data", t, 0)
    ELSE Done([t EXCEPT !.input = AddHexPrefix(input)], 0)

\* super(type, createTxObj): the fields AbstractFeeDelegatedTransaction sets
AbstractFeeDelegatedTransaction(createTxObj) ==
    [NoTx EXCEPT !.nonce = NumberToHex(createTxObj.nonce),
                 !.gasPrice = NumberToHex(createTxObj.gasPrice),
                 !.gas = NumberToHex(createTxObj.gas),
                 !.signatures = createTxObj.signatures,
                 !.feePayer = LowerCase(createTxObj.feePayer),
                 !.feePayerSignatures = createTxObj.feePayerSignatures]

\* new FeeDelegatedChainDataAnchoring(createTxObj) on an object
NewTransaction(createTxObj) ==
    LET from == SetFrom(AbstractFeeDelegatedTransaction(createTxObj), createTxObj.from)
    IN  IF ~from.ok THEN from
        ELSE IF ~Falsy(createTxObj.input) /\ ~Falsy(createTxObj.data)
        THEN Failed("'input' and 'data' properties cannot be defined at the same time", from.val, 0)
        ELSE SetInput(from.val, IF ~Falsy(createTxObj.input) THEN createTxObj.input
                                ELSE createTxObj.data)

\* an element of the decoded list; undefined past its end
Field(fields, n) ==
    IF IsTreeString(fields) \/ n > Len(fields.v) THEN Undefined ELSE fields.v[n]

\* _decode
DecodeFields(rlpEncoded) ==
    IF StrSlice(rlpEncoded.body, 0, 2) # TxTypeTag
    THEN Err("Cannot decode to FeeDelegatedChainDataAnchoring")
    ELSE LET fields == RlpDecode(Hx(StrSlice(rlpEncoded.body, 2, Len(rlpEncoded.body))))
         IN  Ok([nonce |-> TrimLeadingZero(Field(fields, 1)),
                 gasPrice |-> TrimLeadingZero(Field(fields, 2)),
                 gas |-> TrimLeadingZero(Field(fields, 3)),
                 from |-> Field(fields, 4),
                 input |-> Field(fields, 5),
                 data |-> Undefined,
                 signatures |-> Field(fields, 6),
                 feePayer |-> Field(fields, 7),
                 feePayerSignatures |-> Field(fields, 8)])

\* FeeDelegatedChainDataAnchoring.decode
Decode(rlpEncoded) ==
    IF ~DecodeFields(rlpEncoded).ok THEN Failed(DecodeFields(rlpEncoded).err, NoTx, 0)
    ELSE NewTransaction(DecodeFields(rlpEncoded).val)

\* getRLPEncoding
GetRLPEncoding(t) ==
    Hx(TxTypeTag \o RlpEncode(Arr(<<FromNat(t.nonce), FromNat(t.gasPrice), FromNat(t.gas),
                                    LowerCase(t.from), t.input, t.signatures,
                                    LowerCase(t.feePayer), t.feePayerSignatures>>)).body)

\* an encoding for signing that is the wire encoding
GetRLPEncodingForSignature(t) == GetRLPEncoding(t)

\* getCommonRLPEncodingForSignature
GetCommonRLPEncodingForSignature(t) ==
    RlpEncode(Arr(<<Hx(TxTypeTag), FromNat(t.nonce), FromNat(t.gasPrice), FromNat(t.gas),
                    LowerCase(t.from), t.input>>))

\* ------------------------------------------------------------------ inputs
Passwords == 1..NumPasswords
Roles == RoleTransactionKey..(RoleLast - 1)
\* role arguments: not passed, the three roles, and one past the last
RoleArgs == {UndefinedArg} \cup (RoleTransactionKey..RoleLast)
\* a 32-byte hash, a hex string one byte short, a string with a non-hex character
HashArgs == {[prefixed |-> TRUE, hexlen |-> HashHexLen, allhex |-> TRUE],
             [prefixed |-> TRUE, hexlen |-> HashHexLen - 2, allhex |-> TRUE],
             [prefixed |-> TRUE, hexlen |-> HashHexLen, allhex |-> FALSE]}
\* "a1", "A1", "b1", the short "a" and "g1" with a non-hex character
AddressArgs == {[prefixed |-> p, body |-> b] :
                   p \in BOOLEAN, b \in {<<10, 1>>, <<16, 1>>, <<11, 1>>, <<10>>, <<22, 1>>}}
\* role-based key material: up to RoleLast arrays of up to MaxInputLen key strings
KeyArgs == UNION {[1..n -> UNION {[1..m -> Scalars] : m \in 0..MaxInputLen}] : n \in 0..RoleLast}
\* options: each kdf name (none, the two supported, one unsupported) with salt, iv
\* and uuid either all left to the random source or all given; and one with a
\* 16-byte derived key
OptionsArgs == {[kdf |-> k, dklen |-> 0, salt |-> s, iv |-> s, uuid |-> s] :
                    k \in {"", "scrypt", "pbkdf2", "md5"}, s \in {Unset, 0}}
                   \cup {[kdf |-> "", dklen |-> 16, salt |-> 0, iv |-> 0, uuid |-> 0]}

\* options of toAccount: not passed, null, an object with threshold and weights
\* each given or not, and arrays: empty, of one full object, of one empty object
AccountOptionsArgs ==
    {Undefined, [t |-> "null"]}
        \cup {[t |-> "object", threshold |-> th, weights |-> w] :
                  th \in {Unset, 1}, w \in {Unset, 1}}
        \cup {Arr(<<>>),
              Arr(<<[t |-> "object", threshold |-> 1, weights |-> 1]>>),
              Arr(<<[t |-> "object", threshold |-> Unset, weights |-> Unset]>>)}

\* addresses given to the object runs: "0xa1", "A1", "0xb1", the short "0xa", "g1"
ObjectAddressArgs == {[prefixed |-> TRUE, body |-> <<10, 1>>],
                      [prefixed |-> FALSE, body |-> <<16, 1>>],
                      [prefixed |-> TRUE, body |-> <<11, 1>>],
                      [prefixed |-> TRUE, body |-> <<10>>],
                      [prefixed |-> FALSE, body |-> <<22, 1>>]}
\* the address inside the KlaytnWalletKey strings of the runs: "0xa1"
WalletAddress == [prefixed |-> TRUE, body |-> <<10, 1>>]
\* key material in each shape the caller can pass, well-formed and not
\* single values, flat arrays, arrays of role arrays
KeyInputs ==
    {KeyString(1), KeyString(0), WalletKeyString(1, WalletAddress), PrivateKeyObject(2), Null,
     Undefined,
     Arr(<<>>),
     Arr(<<KeyString(1), KeyString(2)>>),
     Arr(<<PrivateKeyObject(1), PrivateKeyObject(2)>>),
     Arr(<<KeyString(1), KeyString(2), KeyString(1)>>),
     Arr(<<KeyString(1), KeyString(0)>>),
     Arr(<<KeyString(1), Arr(<<>>)>>),
     Arr(<<Arr(<<KeyString(1)>>), Arr(<<>>), Arr(<<KeyString(2), KeyString(1)>>)>>),
     Arr(<<Arr(<<PrivateKeyObject(2)>>), Arr(<<PrivateKeyObject(1)>>)>>),
     Arr(<<Arr(<<KeyString(1)>>), Arr(<<>>), Arr(<<KeyString(1), KeyString(2), KeyString(1)>>)>>),
     Arr(<<Arr(<<KeyString(2)>>), Arr(<<KeyString(1), KeyString(0)>>)>>),
     Arr(<<Arr(<<>>), Arr(<<>>), Arr(<<>>), Arr(<<>>)>>)}

\* options of the static encrypt calls: the kdf left to its default or
\* unsupported, salt, iv and uuid given, and options.address not given, "0xa1",
\* "0xA1", "0xb1" or the unprefixed "a1"
StaticOptionsArgs ==
    {[kdf |-> k, dklen |-> 0, salt |-> 0, iv |-> 0, uuid |-> 0, address |-> a] :
         k \in {"", "md5"},
         a \in {Undefined, [t |-> "string", prefixed |-> FALSE, body |-> <<10, 1>>]}
                  \cup {[t |-> "string", prefixed |-> TRUE, body |-> b] :
                            b \in {<<10, 1>>, <<16, 1>>, <<11, 1>>}}}
\* `key` of the static encrypt calls: key strings, KlaytnWalletKey strings, a
\* PrivateKey object, a Keyring instance, arrays
StaticKeyInputs == {KeyString(1), KeyString(0), WalletKeyString(1, WalletAddress),
                    WalletKeyString(2, [prefixed |-> TRUE, body |-> <<16, 1>>]),
                    PrivateKeyObject(1),
                    [t |-> "Keyring",
                     object |-> KeyringObject(WalletAddress, KeyString(2), 0).val],
                    Arr(<<KeyString(1), KeyString(2)>>),
                    Arr(<<Arr(<<KeyString(1)>>), Arr(<<>>), Arr(<<KeyString(2)>>)>>)}

\* two signatures (v, r, s)
SignatureA == Arr(<<Hx(<<2, 5>>), Hx(<<10, 11>>), Hx(<<8, 0>>)>>)
SignatureB == Arr(<<Hx(<<2, 6>>), Hx(<<0, 1>>), Hx(<<12, 13>>)>>)
\* sender and fee payer signature lists of one or two signatures
SignatureArgs == {Arr(<<SignatureA>>), Arr(<<SignatureA, SignatureB>>)}
FeePayerSignatureArgs == {Arr(<<SignatureB>>), Arr(<<SignatureB, SignatureA>>)}
\* fee payer "0xb1", "0xB1"
FeePayerArgs == {Hx(<<11, 1>>), Hx(<<17, 1>>)}
\* input: undefined, "", "0x", "0xab", "AB", "0x7f", "0xg1"
InputArgs == {Undefined, [prefixed |-> FALSE, body |-> <<>>], Hx(<<>>), Hx(<<10, 11>>),
              [prefixed |-> FALSE, body |-> <<16, 17>>], Hx(<<7, 15>>), Hx(<<22, 1>>)}
\* createTxObj. nonce, gasPrice and gas: all zero; odd and even numbers of
\* digits; a leading byte of 0x80; digits given with a leading zero. data:
\* undefined, "0x01"
TxArgs == {[nonce |-> a.nonce, gasPrice |-> a.gasPrice, gas |-> a.gas, from |-> f, input |-> i,
            data |-> d, signatures |-> sigs, feePayer |-> p, feePayerSignatures |-> psigs] :
               a \in {[nonce |-> Hx(<<0>>), gasPrice |-> Hx(<<0>>), gas |-> Hx(<<0>>)],
                      [nonce |-> Hx(<<1>>), gasPrice |-> Hx(<<1, 9>>), gas |-> Hx(<<1, 0, 0>>)],
                      [nonce |-> Hx(<<8, 0>>), gasPrice |-> Hx(<<0>>), gas |-> Hx(<<0, 15>>)]},
               f \in ObjectAddressArgs, i \in InputArgs, d \in {Undefined, Hx(<<0, 1>>)},
               sigs \in SignatureArgs, p \in FeePayerArgs, psigs \in FeePayerSignatureArgs}

\* keystore records written elsewhere, for the private keys k under `password`:
\* the crypto object of a key, with salt and iv given
CryptoOf(k, password) ==
    EncryptOne(k, password, [kdf |-> "", dklen |-> 0, salt |-> 0, iv |-> 0, uuid |-> 0], 0).val
\* a v3 record with a single crypto object; records of version 3 and 4 that carry
\* both crypto and keyring; a v4 record with a flat list of two crypto objects
ForeignKeystores(password) ==
    {[version |-> 3, id |-> 0, address |-> WalletAddress,
      crypto |-> CryptoOf(k, password), keyring |-> Undefined] : k \in Scalars}
    \cup {[version |-> v, id |-> 0, address |-> WalletAddress,
           crypto |-> CryptoOf(1, password), keyring |-> Arr(<<CryptoOf(1, password)>>)] :
              v \in {3, 4}}
    \cup {[version |-> 4, id |-> 0, address |-> WalletAddress, crypto |-> Undefined,
           keyring |-> Arr(<<CryptoOf(k1, password), CryptoOf(k2, password)>>)] :
              k1 \in Scalars, k2 \in Scalars}

\* nothing constructed yet; the random source at its first value
Init ==
    /\ keyring = NoKeyring
    /\ keystore = NoKeystore
    /\ sealed = [by |-> "none", password |-> 0, record |-> NoKeystore]
    /\ last = [op |-> "none"]
    /\ rng = 0
    /\ objects = [self |-> NoneObject, dup |-> NoneObject, allocated |-> 0]
    /\ tx = NoTx

\* the harness of the method runs: an instance is constructed first, then one
\* method is called on it; a keystore it produced may be decrypted any number of
\* times
Constructed == last.op = "create" /\ last.ok

\* Keyring.createWithRoleBasedKey(address, key) builds the instance under test
Construct ==
    /\ last.op = "none"
    /\ \E address \in AddressArgs, key \in KeyArgs :
           LET r == CreateWithRoleBasedKey(address, key)
           IN  /\ keyring' = IF r.ok THEN r.val ELSE keyring
               /\ last' = [op |-> "create", ok |-> r.ok, err |-> r.err]
    /\ UNCHANGED <<keystore, sealed, rng, objects, tx>>

\* keyring.getKeyByRole(role)
Lookup ==
    /\ Constructed
    /\ \E role \in RoleArgs :
           last' = [op |-> "getKeyByRole", role |-> role, ret |-> GetKeyByRole(keyring, role)]
    /\ UNCHANGED <<keyring, keystore, sealed, rng, objects, tx>>

\* keyring.signWithKey(hash, chainId, role, index)
SignOne ==
    /\ Constructed
    /\ \E hash \in HashArgs, chainId \in {UndefinedArg, 1}, role \in RoleArgs,
          index \in {[t |-> "undefined", n |-> 0], [t |-> "string", n |-> 0]}
                       \cup {[t |-> "number", n |-> i] : i \in (-1)..MAXIMUM_KEY_NUM} :
           last' = [op |-> "signWithKey", hash |-> hash, chainId |-> chainId, role |-> role,
                    index |-> index, ret |-> SignWithKey(keyring, hash, chainId, role, index)]
    /\ UNCHANGED <<keyring, keystore, sealed, rng, objects, tx>>

\* keyring.signWithKeys(hash, chainId, role)
SignAll ==
    /\ Constructed
    /\ \E hash \in HashArgs, chainId \in {UndefinedArg, 1}, role \in RoleArgs :
           last' = [op |-> "signWithKeys", hash |-> hash, chainId |-> chainId, role |-> role,
                    ret |-> SignWithKeys(keyring, hash, chainId, role)]
    /\ UNCHANGED <<keyring, keystore, sealed, rng, objects, tx>>

\* keyring.isDecoupled()
Decoupled ==
    /\ Constructed
    /\ last' = [op |-> "isDecoupled", ret |-> IsDecoupled(keyring)]
    /\ UNCHANGED <<keyring, keystore, sealed, rng, objects, tx>>

\* keyring.encrypt(password, options); the caller keeps the record returned
Seal ==
    /\ Constructed
    /\ \E password \in Passwords, options \in OptionsArgs :
           LET e == Encrypt(keyring, password, options, rng)
           IN  /\ last' = [op |-> "encrypt", password |-> password, ok |-> e.ok, err |-> e.err]
               /\ rng' = e.rng
               /\ keystore' = IF e.ok THEN e.val ELSE keystore
               /\ sealed' = IF e.ok
                            THEN [by |-> "encrypt", password |-> password, record |-> e.val]
                            ELSE sealed
    /\ UNCHANGED <<keyring, objects, tx>>

\* keyring.encryptV3(password, options)
SealV3 ==
    /\ Constructed
    /\ \E password \in Passwords, options \in OptionsArgs :
           LET e == EncryptV3(keyring, password, options, rng)
           IN  /\ last' = [op |-> "encryptV3", password |-> password, ok |-> e.ok, err |-> e.err]
               /\ rng' = e.rng
               /\ keystore' = IF e.ok THEN e.val ELSE keystore
               /\ sealed' = IF e.ok
                            THEN [by |-> "encryptV3", password |-> password, record |-> e.val]
                            ELSE sealed
    /\ UNCHANGED <<keyring, objects, tx>>

\* the caller reads a keystore record that was written elsewhere
Import ==
    /\ last.op = "none"
    /\ \E password \in Passwords : \E record \in ForeignKeystores(password) :
           /\ keystore' = record
           /\ sealed' = [by |-> "import", password |-> password, record |-> record]
           /\ last' = [op |-> "import"]
    /\ UNCHANGED <<keyring, rng, objects, tx>>

\* Keyring.decrypt(keystore, password) on the keystore object the caller holds
\* (_.isObject(keystore), so `json` is that very object)
Open ==
    /\ last.op \in {"encrypt", "encryptV3", "decrypt", "import"}
    /\ sealed.by # "none"
    /\ \E password \in Passwords :
           LET d == Decrypt(keystore, password)
           IN  /\ last' = [op |-> "decrypt", password |-> password, before |-> keystore,
                           ok |-> d.ok, err |-> d.err, ret |-> d.val,
                           deciphered |-> d.deciphered]
               /\ keystore' = d.json
    /\ UNCHANGED <<keyring, sealed, rng, objects, tx>>

\* keyring.getKlaytnWalletKey()
ExportWalletKey ==
    /\ Constructed
    /\ last' = [op |-> "getKlaytnWalletKey", ret |-> GetKlaytnWalletKey(keyring)]
    /\ UNCHANGED <<keyring, keystore, sealed, rng, objects, tx>>

\* keyring.toAccount(options)
Account ==
    /\ Constructed
    /\ \E options \in AccountOptionsArgs, accepted \in BOOLEAN :
           last' = [op |-> "toAccount", options |-> options, accepted |-> accepted,
                    ret |-> ToAccount(keyring, options, accepted)]
    /\ UNCHANGED <<keyring, keystore, sealed, rng, objects, tx>>

\* the object runs: a Keyring object is made by a factory or the constructor,
\* then its properties are assigned and it is copied, in any order, while the
\* allocation numbers last; or one static encrypt call is made
Exists(obj) == obj.id # 0

\* the objects after a call on `target` left it as `after`: every variable that
\* refers to the target object sees the change
Heap(target, after, allocated) ==
    [self |-> IF objects.self.id = target.id THEN after ELSE objects.self,
     dup |-> IF objects.dup.id = target.id THEN after ELSE objects.dup,
     allocated |-> allocated]

\* self = Keyring.create(address, key)
Make ==
    /\ last.op = "none"
    /\ \E address \in ObjectAddressArgs, key \in KeyInputs :
           LET r == KeyringCreate(address, key, objects.allocated)
           IN  /\ objects' = IF r.ok
                             THEN [objects EXCEPT !.self = r.val, !.allocated = r.allocated]
                             ELSE [objects EXCEPT !.allocated = r.allocated]
               /\ last' = [op |-> "Keyring.create", address |-> address, key |-> key,
                           ok |-> r.ok, err |-> r.err, before |-> objects]
    /\ UNCHANGED <<keyring, keystore, sealed, rng, tx>>

\* self = new Keyring(address, keys)
Build ==
    /\ last.op = "none"
    /\ \E address \in ObjectAddressArgs, keys \in KeyInputs :
           LET r == KeyringObject(address, keys, objects.allocated)
           IN  /\ objects' = IF r.ok
                             THEN [objects EXCEPT !.self = r.val, !.allocated = r.allocated]
                             ELSE [objects EXCEPT !.allocated = r.allocated]
               /\ last' = [op |-> "new Keyring", address |-> address, key |-> keys,
                           ok |-> r.ok, err |-> r.err, before |-> objects]
    /\ UNCHANGED <<keyring, keystore, sealed, rng, tx>>

\* objects[on].address = addressInput
AssignAddress ==
    /\ \E on \in {"self", "dup"} :
           /\ Exists(objects[on])
           /\ \E addressInput \in ObjectAddressArgs :
                  LET r == SetAddress(objects[on], addressInput, objects.allocated)
                  IN  /\ objects' = Heap(objects[on], r.val, r.allocated)
                      /\ last' = [op |-> "set address", on |-> on, address |-> addressInput,
                                  ok |-> r.ok, err |-> r.err, before |-> objects]
    /\ UNCHANGED <<keyring, keystore, sealed, rng, tx>>

\* objects[on].keys = keyInput
AssignKeys ==
    /\ objects.allocated <= MaxAllocated
    /\ \E on \in {"self", "dup"} :
           /\ Exists(objects[on])
           /\ \E keyInput \in KeyInputs :
                  LET r == SetKeys(objects[on], keyInput, objects.allocated)
                  IN  /\ objects' = Heap(objects[on], r.val, r.allocated)
                      /\ last' = [op |-> "set keys", on |-> on, key |-> keyInput,
                                  ok |-> r.ok, err |-> r.err, before |-> objects]
    /\ UNCHANGED <<keyring, keystore, sealed, rng, tx>>

\* dup = self.copy()
Duplicate ==
    /\ objects.allocated <= MaxAllocated
    /\ Exists(objects.self)
    /\ ~Exists(objects.dup)
    /\ LET r == Copy(objects.self, objects.allocated)
       IN  /\ objects' = IF r.ok THEN [objects EXCEPT !.dup = r.val, !.allocated = r.allocated]
                          ELSE [objects EXCEPT !.allocated = r.allocated]
           /\ last' = [op |-> "copy", ok |-> r.ok, err |-> r.err, before |-> objects]
    /\ UNCHANGED <<keyring, keystore, sealed, rng, tx>>

\* Keyring.encrypt(key, password, options)
StaticSeal ==
    /\ last.op = "none"
    /\ \E key \in StaticKeyInputs, password \in Passwords, options \in StaticOptionsArgs :
           LET e == StaticEncrypt(key, password, options, rng)
           IN  /\ last' = [op |-> "Keyring.encrypt", key |-> key, options |-> options,
                           ok |-> e.ok, err |-> e.err, ret |-> e.val]
               /\ rng' = e.rng
    /\ UNCHANGED <<keyring, keystore, sealed, objects, tx>>

\* Keyring.encryptV3(key, password, options)
StaticSealV3 ==
    /\ last.op = "none"
    /\ \E key \in StaticKeyInputs, password \in Passwords, options \in StaticOptionsArgs :
           LET e == StaticEncryptV3(key, password, options, rng)
           IN  /\ last' = [op |-> "Keyring.encryptV3", key |-> key, options |-> options,
                           ok |-> e.ok, err |-> e.err, ret |-> e.val]
               /\ rng' = e.rng
    /\ UNCHANGED <<keyring, keystore, sealed, objects, tx>>

\* the transaction runs: a transaction is constructed, then its from and input
\* are assigned, it is encoded, and an encoding is decoded
TxExists == tx # NoTx /\ last.op \in {"new Transaction", "set from", "set input"}

\* tx = new FeeDelegatedChainDataAnchoring(createTxObj)
NewTx ==
    /\ last.op = "none"
    /\ \E createTxObj \in TxArgs :
           LET r == NewTransaction(createTxObj)
           IN  /\ tx' = IF r.ok THEN r.val ELSE tx
               /\ last' = [op |-> "new Transaction", arg |-> createTxObj, ok |-> r.ok,
                           err |-> r.err]
    /\ UNCHANGED <<keyring, keystore, sealed, rng, objects>>

\* tx.from = address
AssignFrom ==
    /\ TxExists
    /\ \E address \in ObjectAddressArgs :
           LET r == SetFrom(tx, address)
           IN  /\ tx' = r.val
               /\ last' = [op |-> "set from", arg |-> address, ok |-> r.ok, err |-> r.err,
                           before |-> tx]
    /\ UNCHANGED <<keyring, keystore, sealed, rng, objects>>

\* tx.input = input
AssignInput ==
    /\ TxExists
    /\ \E input \in InputArgs :
           LET r == SetInput(tx, input)
           IN  /\ tx' = r.val
               /\ last' = [op |-> "set input", arg |-> input, ok |-> r.ok, err |-> r.err,
                           before |-> tx]
    /\ UNCHANGED <<keyring, keystore, sealed, rng, objects>>

\* tx.getRLPEncoding()
Encode ==
    /\ TxExists
    /\ last' = [op |-> "getRLPEncoding", ret |-> GetRLPEncoding(tx)]
    /\ UNCHANGED <<keyring, keystore, sealed, rng, objects, tx>>

\* FeeDelegatedChainDataAnchoring.decode(rlpEncoded) of the encoding, and of the
\* encoding with another type tag, "0x48"; the caller re-encodes the transaction
\* it gets
DecodeEncoded ==
    /\ last.op = "getRLPEncoding"
    /\ \E rlpEncoded \in {last.ret,
                          Hx(<<4, 8>> \o StrSlice(last.ret.body, 2, Len(last.ret.body)))} :
           LET r == Decode(rlpEncoded)
           IN  last' = [op |-> "decode", arg |-> rlpEncoded, ok |-> r.ok, err |-> r.err,
                        ret |-> r.val,
                        encoding |-> IF r.ok THEN GetRLPEncoding(r.val) ELSE Undefined]
    /\ UNCHANGED <<keyring, keystore, sealed, rng, objects, tx>>

\* tx.getCommonRLPEncodingForSignature()
Payload ==
    /\ TxExists
    /\ last' = [op |-> "getCommonRLPEncodingForSignature",
                ret |-> GetCommonRLPEncodingForSignature(tx)]
    /\ UNCHANGED <<keyring, keystore, sealed, rng, objects, tx>>

\* construction, role lookup and signing
Next == Construct \/ Lookup \/ SignOne \/ SignAll \/ Decoupled
Spec == Init /\ [][Next]_vars

\* construction and the keystore codec
NextKeystore == Construct \/ Seal \/ SealV3 \/ Open
SpecKeystore == Init /\ [][NextKeystore]_vars

\* decryption of keystores made by encrypt and of keystores written elsewhere
NextImport == Construct \/ Seal \/ Import \/ Open
SpecImport == Init /\ [][NextImport]_vars

\* construction, wallet key export and the account descriptor
NextAccount == Construct \/ ExportWalletKey \/ Account
SpecAccount == Init /\ [][NextAccount]_vars

\* Keyring objects and the transaction's setters: factories, constructors,
\* setters, copy, static encrypt
NextObject ==
    \/ Make \/ Build \/ AssignAddress \/ AssignKeys \/ Duplicate \/ StaticSeal \/ StaticSealV3
    \/ NewTx \/ AssignFrom \/ AssignInput
SpecObject == Init /\ [][NextObject]_vars

\* the transaction codec
NextTransaction == NewTx \/ AssignFrom \/ AssignInput \/ Encode \/ DecodeEncoded \/ Payload
SpecTransaction == Init /\ [][NextTransaction]_vars

\* ------------------------------------------------------------------ claims
\* the keys of a role (0-based) in the instance under test
KeysOf(role) == keyring.keys[role + 1]
\* the fallback rule as the specification words it: an empty role reads the
\* TransactionKey list
Resolved(role) ==
    IF Len(KeysOf(role)) = 0 THEN KeysOf(RoleTransactionKey) ELSE KeysOf(role)
\* the last call decrypted the record exactly as encrypt / encryptV3 returned it
DecryptedSealed == last.op = "decrypt" /\ last.before = sealed.record
MacMismatch == "Key derivation failed - possibly wrong password"


\* C1: decrypting what keyring.encrypt returned, with the same password, succeeds
\* and gives a keyring with the same address and the same keys per role, in order,
\* for every role partition (empty roles included) and both kdfs.
C1_RoundTrip ==
    (DecryptedSealed /\ sealed.by = "encrypt" /\ last.password = sealed.password)
        => (last.ok /\ last.ret.address = keyring.address /\ last.ret.keys = keyring.keys)

\* C2: decrypting a keystore made by encrypt / encryptV3 with another password
\* always fails with the MAC-mismatch error, and no decipher step is reached.
C2_WrongPassword ==
    (DecryptedSealed /\ last.password # sealed.password)
        => (~last.ok /\ last.err = MacMismatch /\ last.deciphered = 0)

\* C3: getKeyByRole returns the role's own list when non-empty, the TransactionKey
\* list when the own list is empty and TransactionKey is not, and fails when role
\* is undefined or the role's list and TransactionKey are both empty, for all
\* three roles.
C3_GetKeyByRole ==
    last.op = "getKeyByRole" =>
        /\ (last.role \in Roles /\ Len(Resolved(last.role)) > 0)
               => (last.ret.ok /\ last.ret.val = Resolved(last.role))
        /\ (last.role = UndefinedArg \/ (last.role \in Roles /\ Len(Resolved(last.role)) = 0))
               => ~last.ret.ok

\* C3 (amended): as C3, except that the failure on two empty lists is for
\* AccountUpdateKey and FeePayerKey only: getKeyByRole(TransactionKey) on an empty
\* TransactionKey list returns that empty list.
C3_GetKeyByRoleAmended ==
    last.op = "getKeyByRole" =>
        /\ (last.role \in Roles /\ Len(Resolved(last.role)) > 0)
               => (last.ret.ok /\ last.ret.val = Resolved(last.role))
        /\ (last.role = UndefinedArg
               \/ (last.role \in Roles \ {RoleTransactionKey} /\ Len(Resolved(last.role)) = 0))
               => ~last.ret.ok
        /\ (last.role = RoleTransactionKey /\ Len(KeysOf(RoleTransactionKey)) = 0)
               => (last.ret.ok /\ last.ret.val = <<>>)

\* C3 witness: FeePayerKey is empty, TransactionKey holds two keys, and the read
\* of FeePayerKey returned them.
C3_Witness ==
    /\ last.op = "getKeyByRole"
    /\ last.role = RoleFeePayerKey
    /\ KeysOf(RoleFeePayerKey) = <<>>
    /\ KeysOf(RoleAccountUpdateKey) # <<>>
    /\ last.ret.ok
    /\ last.ret.val = <<2, 1>>

\* C4: signWithKey fails for every index that is negative or not below the length
\* of the resolved key list; within range it signs with the resolved list's key at
\* the index (TransactionKey's when the role's own list is empty); and it returns
\* no signature for a digest that is not a strict 32-byte hash or an undefined
\* chainId or role.
C4_SignWithKey ==
    last.op = "signWithKey" =>
        LET index == IF last.index.t = "undefined" THEN 0 ELSE last.index.n
            wellFormed == /\ IsValidHashStrict(last.hash)
                          /\ last.chainId # UndefinedArg
                          /\ last.role \in Roles
                          /\ last.index.t # "string"
        IN  /\ last.ret.ok => (IsValidHashStrict(last.hash) /\ last.chainId # UndefinedArg
                                   /\ last.role # UndefinedArg)
            /\ (last.role \in Roles /\ last.index.t = "number"
                    /\ (index < 0 \/ index >= Len(Resolved(last.role))))
                   => ~last.ret.ok
            /\ (wellFormed /\ index >= 0 /\ index < Len(Resolved(last.role)))
                   => (last.ret.ok
                       /\ last.ret.val = Sign(Resolved(last.role)[index + 1], last.hash, last.chainId))

\* C4 witness: AccountUpdateKey is empty and signWithKey(.., AccountUpdateKey, 1)
\* signed with the second TransactionKey key.
C4_Witness ==
    /\ last.op = "signWithKey"
    /\ last.role = RoleAccountUpdateKey
    /\ KeysOf(RoleAccountUpdateKey) = <<>>
    /\ KeysOf(RoleTransactionKey) = <<1, 2>>
    /\ last.index = [t |-> "number", n |-> 1]
    /\ last.ret.ok
    /\ last.ret.val.signer = 2

\* C5: signWithKeys returns one signature per key of the resolved list, in list
\* order; for an empty role with a non-empty TransactionKey it equals
\* signWithKeys(.., TransactionKey); and it fails when the requested role and
\* TransactionKey are both empty.
C5_SignWithKeys ==
    (last.op = "signWithKeys" /\ IsValidHashStrict(last.hash)
         /\ last.chainId # UndefinedArg /\ last.role \in Roles) =>
        IF Len(Resolved(last.role)) = 0 THEN ~last.ret.ok
        ELSE /\ last.ret.ok
             /\ Len(last.ret.val) = Len(Resolved(last.role))
             /\ \A i \in 1..Len(last.ret.val) :
                    last.ret.val[i] = Sign(Resolved(last.role)[i], last.hash, last.chainId)
             /\ last.ret = SignWithKeys(keyring, last.hash, last.chainId, RoleTransactionKey)
                    \/ Len(KeysOf(last.role)) > 0

\* C5 (amended): as C5, except that the failure on two empty lists is for
\* AccountUpdateKey and FeePayerKey only: signWithKeys(.., TransactionKey) on an
\* empty TransactionKey list returns an empty signature list.
C5_SignWithKeysAmended ==
    (last.op = "signWithKeys" /\ IsValidHashStrict(last.hash)
         /\ last.chainId # UndefinedArg /\ last.role \in Roles) =>
        IF Len(Resolved(last.role)) = 0
        THEN IF last.role = RoleTransactionKey THEN last.ret.ok /\ last.ret.val = <<>>
             ELSE ~last.ret.ok
        ELSE /\ last.ret.ok
             /\ Len(last.ret.val) = Len(Resolved(last.role))
             /\ \A i \in 1..Len(last.ret.val) :
                    last.ret.val[i] = Sign(Resolved(last.role)[i], last.hash, last.chainId)
             /\ last.ret = SignWithKeys(keyring, last.hash, last.chainId, RoleTransactionKey)
                    \/ Len(KeysOf(last.role)) > 0

\* C5 witness: the scenario of the specification: TransactionKey = [k1, k2], the
\* other roles empty, signWithKeys(h, 1, AccountUpdateKey) returned two signatures,
\* by k1 then k2.
C5_Witness ==
    /\ last.op = "signWithKeys"
    /\ last.role = RoleAccountUpdateKey
    /\ keyring.keys = <<<<1, 2>>, <<>>, <<>>>>
    /\ last.ret.ok
    /\ Len(last.ret.val) = 2
    /\ last.ret.val[1].signer = 1
    /\ last.ret.val[2].signer = 2

\* C6: isDecoupled returns a boolean for every keyring, true exactly when a role
\* holds more than one key, or AccountUpdateKey or FeePayerKey is non-empty, or the
\* address derived from TransactionKey[0] differs case-insensitively from the
\* keyring's address.
C6_IsDecoupled ==
    last.op = "isDecoupled" =>
        /\ last.ret.ok
        /\ last.ret.val =
               (\/ \E i \in Roles : Len(KeysOf(i)) > 1
                \/ \E i \in Roles \ {RoleTransactionKey} : Len(KeysOf(i)) > 0
                \/ /\ Len(KeysOf(RoleTransactionKey)) > 0
                   /\ ToLowerCase(DerivedAddress(KeysOf(RoleTransactionKey)[1]).body)
                          # ToLowerCase(keyring.address.body))

\* C7: Keyring.decrypt leaves the keystore record passed to it unchanged, whether
\* it succeeds or fails, for v3 and for v4 records.
C7_DecryptKeepsRecord == last.op = "decrypt" => keystore = last.before

\* C8: encryptV3 succeeds only when the keyring holds exactly one key in
\* TransactionKey and none in the other roles; for every other partition it fails.
C8_EncryptV3SingleKeyOnly ==
    (last.op = "encryptV3" /\ last.ok) =>
        /\ Len(KeysOf(RoleTransactionKey)) = 1
        /\ Len(KeysOf(RoleAccountUpdateKey)) = 0
        /\ Len(KeysOf(RoleFeePayerKey)) = 0

\* C9: the record encryptV3 returns for a single-key keyring has version 3, no
\* keyring field, and a crypto field that is one crypto object, not a list.
C9_V3Shape ==
    (last.op = "encryptV3" /\ last.ok /\ Len(KeysOf(RoleTransactionKey)) = 1) =>
        /\ keystore.version = 3
        /\ ~Truthy(keystore.keyring)
        /\ keystore.crypto.t = "object"

\* C10: in the v4 record keyring.encrypt returns, `keyring` is a list of three
\* per-role lists exactly when AccountUpdateKey or FeePayerKey is non-empty and
\* otherwise a flat list for TransactionKey; each role's list has one crypto
\* object per key of the role, in key order (object j deciphers to key j).
C10_V4Shape ==
    (last.op = "encrypt" /\ last.ok) =>
        LET roleBased == Len(KeysOf(RoleAccountUpdateKey)) > 0 \/ Len(KeysOf(RoleFeePayerKey)) > 0
            cryptoOf(list, keys) ==
                /\ IsArray(list)
                /\ Len(list.v) = Len(keys)
                /\ \A j \in 1..Len(list.v) :
                       /\ list.v[j].t = "object"
                       /\ DecryptOne(list.v[j], last.password) = Ok(keys[j])
        IN  /\ keystore.version = 4
            /\ ~Truthy(keystore.crypto)
            /\ IsArray(keystore.keyring)
            /\ IF roleBased
               THEN /\ Len(keystore.keyring.v) = RoleLast
                    /\ \A i \in Roles : cryptoOf(keystore.keyring.v[i + 1], KeysOf(i))
               ELSE cryptoOf(keystore.keyring, KeysOf(RoleTransactionKey))

\* C10 witness: a keyring with an empty TransactionKey, two AccountUpdateKey keys
\* and an empty FeePayerKey was encrypted into the three-list form.
C10_Witness ==
    /\ last.op = "encrypt"
    /\ last.ok
    /\ keyring.keys = <<<<>>, <<2, 1>>, <<>>>>
    /\ Len(keystore.keyring.v) = RoleLast
    /\ Len(keystore.keyring.v[2].v) = 2

\* C11: getKlaytnWalletKey returns privateKey ++ "0x00" ++ address, both with the
\* 0x prefix, when TransactionKey holds exactly one key and the other roles are
\* empty, and fails for every other partition of the keys.
C11_GetKlaytnWalletKey ==
    last.op = "getKlaytnWalletKey" =>
        IF /\ Len(KeysOf(RoleTransactionKey)) = 1
           /\ Len(KeysOf(RoleAccountUpdateKey)) = 0
           /\ Len(KeysOf(RoleFeePayerKey)) = 0
        THEN /\ last.ret.ok
             /\ last.ret.val.privateKey = [prefixed |-> TRUE, key |-> KeysOf(RoleTransactionKey)[1]]
             /\ last.ret.val.type = "0x00"
             /\ last.ret.val.address = [prefixed |-> TRUE, body |-> keyring.address.body]
        ELSE ~last.ret.ok

\* C11 witness: a keyring with the single key 2 was exported
C11_Witness ==
    /\ last.op = "getKlaytnWalletKey"
    /\ keyring.keys = <<<<2>>, <<>>, <<>>>>
    /\ last.ret.ok
    /\ last.ret.val.privateKey.key = 2

\* C13: toAccount fails when every role is empty; when it succeeds the account is
\* role-based iff AccountUpdateKey or FeePayerKey is non-empty, weighted-multisig
\* iff not role-based and TransactionKey holds more than one key or exactly one
\* key with options (or a first list element) defining threshold and weights, and
\* simple public-key otherwise; role-based with options that are not a list fails,
\* and a single key with any other defined options fails; in every other case the
\* call succeeds when the account model accepts the options.
C13_ToAccount ==
    last.op = "toAccount" =>
        LET roleBased == Len(KeysOf(RoleAccountUpdateKey)) > 0 \/ Len(KeysOf(RoleFeePayerKey)) > 0
            allEmpty == \A i \in Roles : Len(KeysOf(i)) = 0
            given == last.options # Undefined
            explicit == DefinesThresholdAndWeights(FirstOption(last.options))
            multiSig == /\ ~roleBased
                        /\ \/ Len(KeysOf(RoleTransactionKey)) > 1
                           \/ Len(KeysOf(RoleTransactionKey)) = 1 /\ explicit
            simple == ~roleBased /\ Len(KeysOf(RoleTransactionKey)) = 1 /\ ~explicit
            shape == IF roleBased THEN "AccountKeyRoleBased"
                     ELSE IF multiSig THEN "AccountKeyWeightedMultiSig"
                     ELSE "AccountKeyPublic"
            mustFail == \/ allEmpty
                        \/ roleBased /\ given /\ ~IsArray(last.options)
                        \/ simple /\ given
        IN  /\ mustFail => ~last.ret.ok
            /\ last.ret.ok => last.ret.val.type = shape
            /\ (~mustFail /\ last.accepted) => last.ret.ok

\* C13 witness: a single key with {threshold, weights} became a weighted-multisig
\* account
C13_Witness ==
    /\ last.op = "toAccount"
    /\ keyring.keys = <<<<1>>, <<>>, <<>>>>
    /\ last.options = [t |-> "object", threshold |-> 1, weights |-> 1]
    /\ last.ret.ok
    /\ last.ret.val.type = "AccountKeyWeightedMultiSig"

\* one key of the caller's key material: a well-formed private key string or a
\* PrivateKey object
IsKey(el) == el.t \in {"string", "PrivateKey"} /\ KeyScalar(el) \in Scalars
\* a list of at most MAXIMUM_KEY_NUM keys
IsKeyList(x) == IsArray(x) /\ Len(x.v) <= MAXIMUM_KEY_NUM /\ \A i \in 1..Len(x.v) : IsKey(x.v[i])
\* the six supported shapes of key material
SupportedKeyMaterial(key) ==
    \/ IsKey(key)
    \/ IsKeyList(key)
    \/ IsArray(key) /\ Len(key.v) <= RoleLast /\ \A i \in 1..Len(key.v) : IsKeyList(key.v[i])
\* the keys of a list, as scalars
ScalarsOf(x) == [i \in 1..Len(x.v) |-> KeyScalar(x.v[i])]
\* the partition into roles the input spells out
Partition(key) ==
    IF IsKey(key) THEN <<<<KeyScalar(key)>>, <<>>, <<>>>>
    ELSE IF IsKeyList(key) THEN <<ScalarsOf(key), <<>>, <<>>>>
    ELSE [i \in 1..RoleLast |-> IF i <= Len(key.v) THEN ScalarsOf(key.v[i]) ELSE <<>>]

\* C12: Keyring.create(address, key) succeeds for every supported shape of key
\* material (a key string, a PrivateKey object, a list of either, role lists of
\* either), and the keys of the keyring made are the input's keys per role, in
\* order, with the roles the input leaves out empty.
C12_Create ==
    (last.op = "Keyring.create" /\ IsAddress(last.address) /\ SupportedKeyMaterial(last.key))
        => (/\ last.ok
            /\ IsArray(objects.self.keys)
            /\ Plain(objects.self).keys = Partition(last.key))

\* options.address names the address inside the wallet key, whatever the case
SameAddress(a, klaytnWalletKey) ==
    a.prefixed /\ ToLowerCase(a.body) = ToLowerCase(klaytnWalletKey.address.body)
\* options.address names another address
OtherAddress(a, klaytnWalletKey) ==
    ToLowerCase(a.body) # ToLowerCase(klaytnWalletKey.address.body)

\* C16: the static Keyring.encrypt and Keyring.encryptV3, given a KlaytnWalletKey
\* string, return a keystore for the address inside the wallet key when
\* options.address is left out and when it equals that address up to case, and
\* fail only when options.address is a different address.
C16_StaticEncryptWalletKey ==
    (/\ last.op \in {"Keyring.encrypt", "Keyring.encryptV3"}
     /\ IsKlaytnWalletKey(last.key)
     /\ last.options.kdf = "") =>
        /\ (last.options.address = Undefined \/ SameAddress(last.options.address, last.key))
               => (last.ok /\ last.ret.address = AddHexPrefixLower(last.key.address))
        /\ ~last.ok => (/\ last.options.address # Undefined
                        /\ \/ OtherAddress(last.options.address, last.key)
                           \/ ~last.options.address.prefixed)

\* keys is an array of exactly 3 lists of at most MAXIMUM_KEY_NUM PrivateKey objects
ThreeLists(keys) ==
    /\ IsArray(keys)
    /\ Len(keys.v) = RoleLast
    /\ \A i \in 1..Len(keys.v) :
           /\ IsArray(keys.v[i])
           /\ Len(keys.v[i].v) <= MAXIMUM_KEY_NUM
           /\ \A j \in 1..Len(keys.v[i].v) : IsValidPrivateKey(keys.v[i].v[j])
\* address passes the format check and is stored lower-cased with the 0x prefix
Canonical(address) ==
    /\ IsAddress(address)
    /\ address.prefixed
    /\ address.body = ToLowerCase(address.body)

\* C17: after any successful constructions and successful assignments to address
\* and keys, every keyring holds an array of exactly 3 lists of PrivateKey objects,
\* each of length 0..MAXIMUM_KEY_NUM, and a valid, lower-cased, 0x-prefixed address.
C17_KeyringInvariant ==
    \A on \in {"self", "dup"} :
        Exists(objects[on]) => (ThreeLists(objects[on].keys) /\ Canonical(objects[on].address))

\* C14: for every valid transaction (any nonce, gasPrice and gas, zero included,
\* one or more sender and fee payer signatures), decoding its getRLPEncoding()
\* gives a transaction with the same nonce, gasPrice, gas, from, input,
\* signatures, feePayer and feePayerSignatures, and encoding that one gives the
\* same string.
C14_DecodeEncode ==
    (last.op = "decode" /\ last.arg = GetRLPEncoding(tx))
        => (last.ok /\ last.ret = tx /\ last.encoding = last.arg)

\* the transaction with other signatures, fee payer and fee payer signatures
WithOthers(t, sigs, p, psigs) ==
    [t EXCEPT !.signatures = sigs, !.feePayer = p, !.feePayerSignatures = psigs]

\* C15: the payload of getCommonRLPEncodingForSignature depends on the type tag,
\* nonce, gasPrice, gas, from and input only: the same transaction with any other
\* signatures, feePayer and feePayerSignatures has the same payload; and the
\* payload is an RLP list of six elements whose first element is the type tag,
\* not a string that starts with the tag.
C15_SigningPayload ==
    last.op = "getCommonRLPEncodingForSignature" =>
        /\ \A sigs \in SignatureArgs, p \in FeePayerArgs, psigs \in FeePayerSignatureArgs :
               GetCommonRLPEncodingForSignature(WithOthers(tx, sigs, p, psigs)) = last.ret
        /\ ~IsTreeString(RlpDecode(last.ret))
        /\ Len(RlpDecode(last.ret).v) = 6
        /\ RlpDecode(last.ret).v[1] = Hx(TxTypeTag)
        /\ StrSlice(last.ret.body, 0, 2) # TxTypeTag

\* C15 witness: the payload of a transaction with two sender signatures was
\* taken; its wire encoding changes with the fee payer signatures, and the
\* payload reads c8 49 01 19 82 01 00 80 81 ab for nonce 1, gasPrice 0x19,
\* gas 0x100, from "a1" and input "0xab"
C15_Witness ==
    /\ last.op = "getCommonRLPEncodingForSignature"
    /\ Len(tx.signatures.v) = 2
    /\ tx.nonce = Hx(<<1>>)
    /\ tx.input = Hx(<<10, 11>>)
    /\ ~tx.from.prefixed
    /\ GetRLPEncoding(WithOthers(tx, tx.signatures, tx.feePayer, Arr(<<SignatureB>>)))
           # GetRLPEncoding(WithOthers(tx, tx.signatures, tx.feePayer, Arr(<<SignatureB, SignatureA>>)))
    /\ last.ret = Hx(<<12, 9, 4, 9, 0, 1, 1, 9, 8, 2, 0, 1, 0, 0, 8, 0, 8, 1, 10, 11>>)

\* C18: a setter that throws leaves the object as it was: after a failed
\* assignment to a keyring's address or keys the keyring (and its copy) hold the
\* address and keys they held before, and after a failed assignment to a
\* transaction's from or input the transaction holds the fields it held before,
\* also when the failure shows up after some keys of the new value were accepted.
C18_FailingSetter ==
    /\ (last.op \in {"set address", "set keys"} /\ ~last.ok)
           => (objects.self = last.before.self /\ objects.dup = last.before.dup)
    /\ (last.op \in {"set from", "set input"} /\ ~last.ok) => tx = last.before

\* C18 witness: a keyring with a TransactionKey key was assigned role lists whose
\* first role is valid and whose second role holds an invalid key after a valid
\* one; the assignment threw and the keyring still holds its keys.
C18_Witness ==
    /\ last.op = "set keys"
    /\ ~last.ok
    /\ last.err = "Invalid private key"
    /\ last.key = Arr(<<Arr(<<KeyString(2)>>), Arr(<<KeyString(1), KeyString(0)>>)>>)
    /\ IsArray(objects[last.on].keys)
    /\ Len(objects[last.on].keys.v[1].v) > 0
    /\ objects[last.on] = last.before[last.on]

\* the arrays a keyring's keys value is made of
ArraysIn(obj) ==
    IF IsArray(obj.keys) THEN {obj.keys.id} \cup {obj.keys.v[i].id : i \in 1..Len(obj.keys.v)}
    ELSE {}
\* the keys per role, in order
KeysPerRole(obj) ==
    IF IsArray(obj.keys) THEN [i \in 1..Len(obj.keys.v) |-> obj.keys.v[i].v] ELSE obj.keys
\* the object the last assignment was not made to
Other == IF last.on = "self" THEN "dup" ELSE "self"

\* C20: copy() returns a distinct keyring with the same address and the same keys
\* per role in the same order; original and copy share no array; and after the
\* copy every assignment to address or keys of one of the two, failed or not,
\* leaves the address and the keys of the other as they were.
C20_Copy ==
    /\ last.op = "copy" =>
           /\ last.ok
           /\ objects.dup.address = objects.self.address
           /\ KeysPerRole(objects.dup) = KeysPerRole(objects.self)
           /\ objects.self = last.before.self
    /\ (Exists(objects.self) /\ Exists(objects.dup)) =>
           /\ objects.dup.id # objects.self.id
           /\ ArraysIn(objects.dup) \cap ArraysIn(objects.self) = {}
    /\ (last.op \in {"set address", "set keys"} /\ Exists(last.before.dup)) =>
           objects[Other] = last.before[Other]

\* C20 witness: a keyring with keys in two roles was copied, then the copy was
\* given one other key; the original still holds its two roles.
C20_Witness ==
    /\ last.op = "set keys"
    /\ last.on = "dup"
    /\ last.ok
    /\ Exists(last.before.dup)
    /\ IsArray(last.before.dup.keys) /\ IsArray(objects.dup.keys) /\ IsArray(objects.self.keys)
    /\ KeysPerRole(last.before.dup) = <<<<1>>, <<>>, <<2, 1>>>>
    /\ KeysPerRole(objects.dup) = <<<<2>>, <<>>, <<>>>>
    /\ KeysPerRole(objects.self) = <<<<1>>, <<>>, <<2, 1>>>>

\* the record given to the last decrypt
Given == last.before
\* a v4 record in flat form with 1..MAXIMUM_KEY_NUM crypto objects
FlatV4 ==
    /\ Given.version = 4
    /\ ~Truthy(Given.crypto)
    /\ IsArray(Given.keyring)
    /\ Len(Given.keyring.v) \in 1..MAXIMUM_KEY_NUM
    /\ \A i \in 1..Len(Given.keyring.v) : ~IsArray(Given.keyring.v[i])
\* a v3 record with a single crypto object
SingleV3 ==
    /\ Given.version = 3
    /\ ~Truthy(Given.keyring)
    /\ Truthy(Given.crypto)
    /\ ~IsArray(Given.crypto)
\* the crypto objects of the record, in record order
CryptoObjectsGiven == IF SingleV3 THEN <<Given.crypto>> ELSE Given.keyring.v

\* C19: Keyring.decrypt, with the right password, of a v4 record in flat form with
\* n crypto objects, for every n in 1..MAXIMUM_KEY_NUM, and of a v3 record with a
\* single crypto object, returns a keyring of exactly 3 role lists whose
\* TransactionKey list holds the n decrypted keys in record order and whose other
\* two lists are empty; a record with both crypto and keyring is rejected.
C19_DecryptFlat ==
    last.op = "decrypt" =>
        /\ (last.password = sealed.password /\ (FlatV4 \/ SingleV3)) =>
               /\ last.ok
               /\ Len(last.ret.keys) = RoleLast
               /\ Len(last.ret.keys[1]) = Len(CryptoObjectsGiven)
               /\ \A i \in 1..Len(CryptoObjectsGiven) :
                      last.ret.keys[1][i] = DecryptOne(CryptoObjectsGiven[i], last.password).val
               /\ last.ret.keys[2] = <<>>
               /\ last.ret.keys[3] = <<>>
        /\ (Truthy(Given.crypto) /\ Truthy(Given.keyring)) => ~last.ok

\* C19 witness: a v4 record with the flat list of the crypto objects of keys 2
\* and 1 was decrypted into TransactionKey [2, 1] and two empty roles.
C19_Witness ==
    /\ last.op = "decrypt"
    /\ FlatV4
    /\ sealed.by = "import"
    /\ Len(Given.keyring.v) = 2
    /\ last.ok
    /\ last.ret.keys = <<<<2, 1>>, <<>>, <<>>>>

====
